---- MODULE Spec2Model ----
(***************************************************************************)
(* Bencode RPC codecs (client.go / server.go) over one connection.         *)
(*                                                                         *)
(* The server codec is driven by the serving loop that ServeConn starts,   *)
(* the client codec by callers that send requests and by one reader.  A    *)
(* bencode.RawMessage is modelled as the sequence of its tokens, a nil     *)
(* pointer as the empty sequence.                                          *)
(***************************************************************************)
EXTENDS Integers, Sequences, FiniteSets, TLC

\* ----------------------------------------------------------------- bounds
MaxReq == 2        \* requests a hand-coding peer puts on the wire
MaxCalls == 2      \* WriteResponse invocations on the server codec
MaxInt == 9        \* largest integer the token decoder knows

\* ------------------------------------------------------------ raw values
Nil == <<>>

\* the decimal digits of an integer, as the encoder prints them
DigitsOf(n) == ToString(n)

\* bencode of an integer: i<digits>e
EncodeInt(n) == <<"i", DigitsOf(n), "e">>

\* decoding a raw message into a Go uint64 (clientResponse.Id)
DecodeUint(raw) ==
    IF /\ Len(raw) = 3
       /\ raw[1] = "i"
       /\ raw[3] = "e"
       /\ \E n \in 0..MaxInt : DigitsOf(n) = raw[2]
    THEN [ok |-> TRUE, v |-> CHOOSE n \in 0..MaxInt : DigitsOf(n) = raw[2]]
    ELSE [ok |-> FALSE, v |-> 0]

\* var zero = bencode.RawMessage([]byte("i0e"))
zero == <<"i", "0", "e">>

\* wire identifiers a peer may choose: an integer, a string, a nested list
IdInt == EncodeInt(7)
IdStr == <<"3", ":", "abc">>
IdList == <<"l", "i", "1", "e", "1", ":", "x", "e">>
WireIds == {IdInt, IdStr, IdList}

\* Args{A, B} of the test service, as the dictionary the encoder writes
EncodeArgs(a, b) == <<"d", "A">> \o EncodeInt(a) \o <<"B">> \o EncodeInt(b) \o <<"e">>

\* bencode.Unmarshal(raw, *Args)
UnmarshalArgs(raw) ==
    LET n == Len(raw)
        a == DecodeUint(SubSeq(raw, 3, 5))
        b == DecodeUint(SubSeq(raw, 7, n - 1))
    IN  IF /\ n = Len(EncodeArgs(0, 0))
           /\ raw[1] = "d" /\ raw[2] = "A" /\ raw[6] = "B" /\ raw[n] = "e"
           /\ a.ok /\ b.ok
        THEN [ok |-> TRUE, A |-> a.v, B |-> b.v]
        ELSE [ok |-> FALSE, A |-> 0, B |-> 0]

\* Reply{C}, and the empty struct net/rpc passes with an error
Reply(c) == [kind |-> "Reply", C |-> c]
invalidRequest == [kind |-> "invalid", C |-> 0]

\* what the encoder writes for the result x of a response
EncodeResult(x) ==
    IF x.kind = "Reply" THEN <<"d", "C">> \o EncodeInt(x.C) \o <<"e">>
    ELSE <<"d", "e">>

\* bencode.Unmarshal(raw, *Reply)
UnmarshalReply(raw) ==
    LET n == Len(raw)
        c == DecodeUint(SubSeq(raw, 3, n - 1))
    IN  IF n = Len(EncodeResult(Reply(0))) /\ raw[1] = "d" /\ raw[2] = "C"
           /\ raw[n] = "e" /\ c.ok
        THEN [ok |-> TRUE, C |-> c.v]
        ELSE [ok |-> FALSE, C |-> 0]

\* the service the tests register: Arith.Add, Arith.Mul, Arith.Div
Methods == {"Arith.Add", "Arith.Mul", "Arith.Div"}
Arith(method, A, B) ==
    CASE method = "Arith.Add" -> [Error |-> "", x |-> Reply(A + B)]
      [] method = "Arith.Mul" -> [Error |-> "", x |-> Reply(A * B)]
      [] method = "Arith.Div" ->
            IF B = 0 THEN [Error |-> "divide by zero", x |-> invalidRequest]
            ELSE [Error |-> "", x |-> Reply(A \div B)]
      [] OTHER -> [Error |-> "rpc: can't find method", x |-> invalidRequest]

errMissingParams == "bencoderpc: request body missing params"
errInvalidSeq == "invalid sequence number in response"

\* ------------------------------------------------------------------ state
VARIABLES
    c2s,        \* client -> server stream: request frames not yet decoded
    s2c,        \* server -> client stream: chunks written by the encoder
    connClosed, \* the connection was closed (hang-up or Close)
    injected,   \* frames a hand-coding peer has written so far
    sreq,       \* serverCodec.req   (temporary work space)
    sseq,       \* serverCodec.seq
    spending,   \* serverCodec.pending : seq -> original request id
    smutex,     \* serverCodec.mutex is locked
    lpc,        \* position of the serving loop
    lreq,       \* the rpc.Request the loop passes to ReadRequestHeader
    lerr,       \* what the last ReadRequestHeader / ReadRequestBody returned
    replies,    \* seq -> the (error, result) the dispatched handler produces
    wireId,     \* seq -> identifier the request carried on the wire (history)
    hpc,        \* position of each WriteResponse invocation
    hr,         \* its rpc.Response argument r  (Seq, Error)
    hx,         \* its result argument x
    hb,         \* its local b
    hret,       \* what it returned
    creq,       \* clientCodec.req   (temporary work space)
    cresp,      \* clientCodec.resp  (temporary work space)
    cpending,   \* clientCodec.pending : request id -> method name
    cmutex,     \* clientCodec.mutex is locked
    wpc,        \* position of each WriteRequest invocation
    wr,         \* its rpc.Request argument r  (Seq, ServiceMethod)
    wparams,    \* its params argument
    wret,       \* what it returned
    rpos,       \* position of the reader of responses
    rresp,      \* the rpc.Response the reader passes to ReadResponseHeader
    rerr,       \* what the last ReadResponseHeader / ReadResponseBody returned
    rcur,       \* responses of s2c the client decoder has consumed
    got         \* request id -> what the call with that id received (history)

connVars == <<c2s, s2c, connClosed, injected>>
srvVars == <<sreq, sseq, spending, smutex>>
loopVars == <<lpc, lreq, lerr, replies, wireId>>
hVars == <<hpc, hr, hx, hb, hret>>
cliVars == <<creq, cresp, cpending, cmutex, wpc, wr, wparams, wret,
             rpos, rresp, rerr, rcur, got>>
srvSide == <<srvVars, loopVars, hVars>>
vars == <<connVars, srvVars, loopVars, hVars, cliVars>>

Handlers == 1..MaxCalls

\* a request frame as a peer writes it; ok = FALSE is invalid bencode
Frame(i, m, p) == [ok |-> TRUE, i |-> i, m |-> m, p |-> p]
Malformed == [ok |-> FALSE, i |-> Nil, m |-> "", p |-> Nil]
PeerFrames ==
    {Frame(IdInt, "Arith.Add", EncodeArgs(2, 3)),
     Frame(IdStr, "Arith.Nope", EncodeArgs(2, 3)),
     Frame(IdList, "Arith.Add", Nil),
     Frame(Nil, "Arith.Add", EncodeArgs(2, 3)),
     Frame(Nil, "Arith.Nope", Nil)}
        \cup {Malformed}

\* serverRequest.reset
sreqReset == [Id |-> Nil, Method |-> "", Params |-> Nil]

\* Variant: the key is left in the map
DeleteNothing(m, k) == m

\* a map without one key: delete(m, k)
Delete(m, k) == [j \in DOMAIN m \ {k} |-> m[j]]
\* a map with one key set: m[k] = v
Store(m, k, v) == [j \in DOMAIN m \cup {k} |-> IF j = k THEN v ELSE m[j]]
EmptyMap == [j \in {} |-> Nil]

InitConn ==
    /\ c2s = <<>>
    /\ s2c = <<>>
    /\ connClosed = FALSE
    /\ injected = 0

\* NewServerCodec
InitServer ==
    /\ sreq = sreqReset
    /\ sseq = 0
    /\ spending = EmptyMap
    /\ smutex = FALSE
    /\ lpc = "Reading"
    /\ lreq = [ServiceMethod |-> "", Seq |-> 0]
    /\ lerr = ""
    /\ replies = [j \in {} |-> [Error |-> "", x |-> invalidRequest]]
    /\ wireId = EmptyMap
    /\ hpc = [h \in Handlers |-> "idle"]
    /\ hr = [h \in Handlers |-> [Seq |-> 0, Error |-> ""]]
    /\ hx = [h \in Handlers |-> invalidRequest]
    /\ hb = [h \in Handlers |-> Nil]
    /\ hret = [h \in Handlers |-> ""]

Callers == 1..MaxReq

clientRequest(id, method, params) == [Id |-> id, Method |-> method, Params |-> params]
\* clientResponse.reset
crespReset == [Error |-> "", Id |-> 0, Result |-> Nil]
\* a new rpc.Response
NewResponse == [ServiceMethod |-> "", Seq |-> 0, Error |-> ""]

\* NewClientCodec
InitClient ==
    /\ creq = clientRequest(0, "", <<>>)
    /\ cresp = crespReset
    /\ cpending = [j \in {} |-> ""]
    /\ cmutex = FALSE
    /\ wpc = [p \in Callers |-> "idle"]
    /\ wr = [p \in Callers |-> [Seq |-> 0, ServiceMethod |-> ""]]
    /\ wparams = [p \in Callers |-> <<>>]
    /\ wret = [p \in Callers |-> ""]
    /\ rpos = "Header"
    /\ rresp = NewResponse
    /\ rerr = ""
    /\ rcur = 0
    /\ got = [j \in {} |-> [ServiceMethod |-> "", Error |-> "", C |-> 0, body |-> ""]]

\* ------------------------------------------------------ the peer of a server
\* a test writes a hand-coded request on its end of the pipe; the pipe of
\* the tests is unbuffered, so the write ends when the frame before it was read
PeerSend(f) ==
    /\ ~connClosed
    /\ c2s = <<>>
    /\ injected < MaxReq
    /\ c2s' = Append(c2s, f)
    /\ injected' = injected + 1
    /\ UNCHANGED <<cliVars, s2c, connClosed, srvVars, loopVars, hVars>>

\* the peer hangs up
PeerClose ==
    /\ ~connClosed
    /\ connClosed' = TRUE
    /\ UNCHANGED <<cliVars, c2s, s2c, injected, srvVars, loopVars, hVars>>

\* ------------------------------------------- serverCodec.ReadRequestHeader
\* c.dec.Decode(&c.req) on the next frame of the stream: the error it gives
DecodeError(stream, closed) ==
    IF stream = <<>> THEN (IF closed THEN "EOF" ELSE "")
    ELSE IF Head(stream).ok THEN "" ELSE "bencode: invalid input"

\* Variant: the error of Decode is dropped
AfterDecodeIgnoreError(err) == "HdrLock"

\* if err := c.dec.Decode(&c.req); err != nil { return err }
AfterDecode(err) == IF err # "" THEN "return" ELSE "HdrLock"

\* Variant: the stored pointer is shared: every entry ends up with the last id
RecordPendingAliased(pending, seq, id) ==
    IF id # Nil THEN [j \in DOMAIN pending \cup {seq} |-> id] ELSE pending

\* if c.req.Id != nil { c.pending[c.seq] = c.req.Id }
RecordPending(pending, seq, id) ==
    IF id # Nil THEN Store(pending, seq, id) ELSE pending

\* Variant: the work space is not reset, a field the request lacks keeps
\* the value of the request before
RRH_DecodeNoReset ==
    /\ lpc = "Reading"
    /\ c2s # <<>> \/ connClosed
    /\ LET err == DecodeError(c2s, connClosed)
           f == Head(c2s)
       IN  /\ lerr' = err
           /\ c2s' = IF c2s = <<>> THEN c2s ELSE Tail(c2s)
           /\ sreq' = IF err = ""
                      THEN [Id |-> IF f.i = Nil THEN sreq.Id ELSE f.i,
                            Method |-> f.m,
                            Params |-> IF f.p = Nil THEN sreq.Params ELSE f.p]
                      ELSE sreq
           /\ lreq' = IF err = "" THEN [lreq EXCEPT !.ServiceMethod = f.m] ELSE lreq
           /\ lpc' = IF AfterDecode(err) = "return" THEN "Closed" ELSE "HdrLock"
    /\ UNCHANGED <<cliVars, s2c, connClosed, injected, sseq, spending, smutex, replies, wireId, hVars>>

\* Variant: a failed decode uses up a sequence number
RRH_DecodeCounting ==
    /\ lpc = "Reading"
    /\ c2s # <<>> \/ connClosed
    /\ LET err == DecodeError(c2s, connClosed)
           f == Head(c2s)
       IN  /\ lerr' = err
           /\ c2s' = IF c2s = <<>> THEN c2s ELSE Tail(c2s)
           /\ sreq' = IF err = "" THEN [Id |-> f.i, Method |-> f.m, Params |-> f.p]
                      ELSE sreqReset
           /\ lreq' = IF err = "" THEN [lreq EXCEPT !.ServiceMethod = f.m] ELSE lreq
           /\ lpc' = IF AfterDecode(err) = "return" THEN "Closed" ELSE "HdrLock"
           /\ sseq' = IF err = "" THEN sseq ELSE sseq + 1
    /\ UNCHANGED <<cliVars, s2c, connClosed, injected, spending, smutex, replies, wireId, hVars>>

\* reset, decode, r.ServiceMethod = c.req.Method
RRH_Decode ==
    /\ lpc = "Reading"
    /\ c2s # <<>> \/ connClosed
    /\ LET err == DecodeError(c2s, connClosed)
           f == Head(c2s)
       IN  /\ lerr' = err
           /\ c2s' = IF c2s = <<>> THEN c2s ELSE Tail(c2s)
           /\ sreq' = IF err = "" THEN [Id |-> f.i, Method |-> f.m, Params |-> f.p]
                      ELSE sreqReset
           /\ lreq' = IF err = "" THEN [lreq EXCEPT !.ServiceMethod = f.m] ELSE lreq
           /\ lpc' = IF AfterDecode(err) = "return" THEN "Closed" ELSE "HdrLock"
    /\ UNCHANGED <<cliVars, s2c, connClosed, injected, sseq, spending, smutex, replies, wireId, hVars>>

\* Bug(emery): requests missing params are ignored by bencode: the decoder
\* may drop such a frame and go on waiting for input inside the same Decode
RRH_DecodeIgnored ==
    /\ lpc = "Reading"
    /\ c2s # <<>>
    /\ Head(c2s).ok
    /\ Head(c2s).p = Nil
    /\ c2s' = Tail(c2s)
    /\ sreq' = sreqReset
    /\ UNCHANGED <<cliVars, s2c, connClosed, injected, sseq, spending, smutex, loopVars, hVars>>

\* c.mutex.Lock()
RRH_Lock ==
    /\ lpc = "HdrLock"
    /\ ~smutex
    /\ smutex' = TRUE
    /\ lpc' = "HdrCrit"
    /\ UNCHANGED <<cliVars, connVars, sreq, sseq, spending, lreq, lerr, replies, wireId, hVars>>

\* Variant: the counter is not advanced
RRH_CritNoIncrement ==
    /\ lpc = "HdrCrit"
    /\ sseq' = sseq
    /\ spending' = RecordPending(spending, sseq', sreq.Id)
    /\ sreq' = [sreq EXCEPT !.Id = Nil]
    /\ lreq' = [lreq EXCEPT !.Seq = sseq']
    /\ smutex' = FALSE
    /\ wireId' = Store(wireId, sseq', sreq.Id)
    /\ lerr' = ""
    /\ lpc' = "Body"
    /\ UNCHANGED <<cliVars, connVars, replies, hVars>>

\* c.seq++ ... c.mutex.Unlock(); return nil
RRH_Crit ==
    /\ lpc = "HdrCrit"
    /\ sseq' = sseq + 1
    /\ spending' = RecordPending(spending, sseq', sreq.Id)
    /\ sreq' = [sreq EXCEPT !.Id = Nil]
    /\ lreq' = [lreq EXCEPT !.Seq = sseq']
    /\ smutex' = FALSE
    /\ wireId' = Store(wireId, sseq', sreq.Id)
    /\ lerr' = ""
    /\ lpc' = "Body"
    /\ UNCHANGED <<cliVars, connVars, replies, hVars>>

\* --------------------------------------------- serverCodec.ReadRequestBody
\* the loop passes a nil target when it finds no such method to call
Target(method) == IF method \in Methods THEN "Args" ELSE "nil"

\* Variant: no check for missing params
ReadRequestBodyNoCheck(req, x) ==
    IF x = "nil" THEN ""
    ELSE IF UnmarshalArgs(req.Params).ok THEN "" ELSE "bencode: cannot unmarshal"

ReadRequestBody(req, x) ==
    IF x = "nil" THEN ""
    ELSE IF req.Params = Nil THEN errMissingParams
    ELSE IF UnmarshalArgs(req.Params).ok THEN "" ELSE "bencode: cannot unmarshal"

\* what the dispatcher will answer for the request just read
Dispatch(req, x, err) ==
    IF err # "" THEN [Error |-> err, x |-> invalidRequest]
    ELSE IF x = "nil" THEN [Error |-> "rpc: can't find method", x |-> invalidRequest]
    ELSE Arith(req.Method, UnmarshalArgs(req.Params).A, UnmarshalArgs(req.Params).B)

\* the loop reads the body of the request whose header it just read
RRB ==
    /\ lpc = "Body"
    /\ LET x == Target(lreq.ServiceMethod) IN
       /\ lerr' = ReadRequestBody(sreq, x)
       /\ replies' = Store(replies, lreq.Seq, Dispatch(sreq, x, lerr'))
    /\ lpc' = "Reading"
    /\ UNCHANGED <<cliVars, connVars, srvVars, lreq, wireId, hVars>>

\* ------------------------------------------------ serverCodec.WriteResponse
\* the dispatcher calls WriteResponse for a request it has dispatched; Seq 0
\* is a sequence number the codec never assigned.  Invocations are numbered
\* in the order in which they pass c.mutex.Lock().
WR_Lock(h, s) ==
    /\ hpc[h] = "idle"
    /\ \A g \in Handlers : g < h => hpc[g] # "idle"
    /\ s \in DOMAIN replies \cup {0}
    /\ ~smutex
    /\ smutex' = TRUE
    /\ hr' = [hr EXCEPT ![h] = [Seq |-> s,
                 Error |-> IF s \in DOMAIN replies THEN replies[s].Error ELSE ""]]
    /\ hx' = [hx EXCEPT ![h] = IF s \in DOMAIN replies THEN replies[s].x
                               ELSE invalidRequest]
    /\ hpc' = [hpc EXCEPT ![h] = "crit"]
    /\ UNCHANGED <<cliVars, connVars, sreq, sseq, spending, loopVars, hb, hret>>

\* Variant: ok is not looked at
LookupPendingNoCheck(pending, seq) ==
    [ok |-> TRUE, b |-> IF seq \in DOMAIN pending THEN pending[seq] ELSE Nil]

\* b, ok := c.pending[r.Seq]
LookupPending(pending, seq) ==
    IF seq \in DOMAIN pending THEN [ok |-> TRUE, b |-> pending[seq]]
    ELSE [ok |-> FALSE, b |-> Nil]

\* Variant: the mutex is kept locked for the write of the response
WR_CritKeepLock(h) ==
    /\ hpc[h] = "crit"
    /\ LET l == LookupPending(spending, hr[h].Seq)
       IN  /\ spending' = IF l.ok THEN Delete(spending, hr[h].Seq) ELSE spending
           /\ hb' = [hb EXCEPT ![h] = l.b]
           /\ hret' = [hret EXCEPT ![h] = IF l.ok THEN "" ELSE errInvalidSeq]
           /\ hpc' = [hpc EXCEPT ![h] = IF l.ok THEN "encode" ELSE "ret"]
    /\ smutex' = LookupPending(spending, hr[h].Seq).ok
    /\ UNCHANGED <<cliVars, connVars, sreq, sseq, loopVars, hr, hx>>

\* if !ok { unlock; return error }; delete(c.pending, r.Seq); unlock
WR_Crit(h) ==
    /\ hpc[h] = "crit"
    /\ LET l == LookupPending(spending, hr[h].Seq)
       IN  /\ spending' = IF l.ok THEN Delete(spending, hr[h].Seq) ELSE spending
           /\ hb' = [hb EXCEPT ![h] = l.b]
           /\ hret' = [hret EXCEPT ![h] = IF l.ok THEN "" ELSE errInvalidSeq]
           /\ hpc' = [hpc EXCEPT ![h] = IF l.ok THEN "encode" ELSE "ret"]
    /\ smutex' = FALSE
    /\ UNCHANGED <<cliVars, connVars, sreq, sseq, loopVars, hr, hx>>

\* if b == nil { b = &zero }; resp.Id = b
RespId(b) == IF b = Nil THEN zero ELSE b

\* one response on the wire, "d1:e<error>1:i<id>1:r<result>e"; h is the
\* invocation that wrote it (history, 0 for a peer that is no server codec);
\* bad says that the bytes are no well-formed dictionary: the bytes of
\* another response were written between its first and its last byte
WireResponse(h, e, i, r) == [h |-> h, e |-> e, i |-> i, r |-> r, bad |-> FALSE]

\* the invocations that are inside c.enc.Encode
Encoding == {g \in Handlers : hpc[g] = "encoding"}

\* the stream after h starts to write f while the invocations in busy write
StartWrite(stream, f, busy) ==
    LET marked == [j \in 1..Len(stream) |->
                      IF stream[j].h \in busy THEN [stream[j] EXCEPT !.bad = TRUE]
                      ELSE stream[j]]
    IN  Append(marked, [f EXCEPT !.bad = busy # {}])

\* c.enc.Encode(resp) starts writing to the connection
WR_Encode(h) ==
    /\ hpc[h] = "encode"
    /\ IF connClosed
       THEN /\ hret' = [hret EXCEPT ![h] = "io: closed pipe"]
            /\ hpc' = [hpc EXCEPT ![h] = "ret"]
            /\ s2c' = s2c
       ELSE /\ s2c' = StartWrite(s2c,
                        WireResponse(h, hr[h].Error, RespId(hb[h]), EncodeResult(hx[h])),
                        Encoding)
            /\ hpc' = [hpc EXCEPT ![h] = "encoding"]
            /\ hret' = hret
    /\ UNCHANGED <<cliVars, c2s, connClosed, injected, srvVars, loopVars, hr, hx, hb>>

\* c.enc.Encode(resp) has written the last byte and returns
WR_EncodeEnd(h) ==
    /\ hpc[h] = "encoding"
    /\ hret' = [hret EXCEPT ![h] = IF connClosed THEN "io: closed pipe" ELSE ""]
    /\ hpc' = [hpc EXCEPT ![h] = "ret"]
    /\ UNCHANGED <<cliVars, connVars, srvVars, loopVars, hr, hx, hb>>

\* ------------------------------------------- a server and a hand-coding peer
InitAll == InitConn /\ InitServer /\ InitClient

NextServer ==
    \/ \E f \in PeerFrames : PeerSend(f)
    \/ PeerClose
    \/ RRH_Decode
    \/ RRH_DecodeIgnored
    \/ RRH_Lock
    \/ RRH_Crit
    \/ RRB
    \/ \E h \in Handlers : \E s \in 0..MaxReq : WR_Lock(h, s)
    \/ \E h \in Handlers : WR_Crit(h)
    \/ \E h \in Handlers : WR_Encode(h)
    \/ \E h \in Handlers : WR_EncodeEnd(h)

SpecServer == InitAll /\ [][NextServer]_vars

\* ---------------------------------------------- clientCodec.WriteRequest
\* the calls of the tests: method, Args.A, Args.B
CallInputs == {<<"Arith.Add", 2, 3>>, <<"Arith.Mul", 2, 3>>, <<"Arith.Div", 2, 0>>}

\* the out-of-order calls of TestClient, in the order it starts them: Mul
\* first, then Add, each further call the next method in turn
TestCall(p) ==
    CASE p % 3 = 1 -> <<"Arith.Mul", 2, 3>>
      [] p % 3 = 2 -> <<"Arith.Add", 2, 3>>
      [] OTHER -> <<"Arith.Div", 2, 0>>

\* the rpc client numbers its calls from 0 in the order of the sends
CallSeq(p) == p - 1

\* WriteRequest(r, params) is called and passes c.mutex.Lock()
WQ_Lock(p, in) ==
    /\ wpc[p] = "idle"
    /\ \A q \in Callers : q < p => wpc[q] # "idle"
    /\ ~cmutex
    /\ cmutex' = TRUE
    /\ wr' = [wr EXCEPT ![p] = [Seq |-> CallSeq(p), ServiceMethod |-> in[1]]]
    /\ wparams' = [wparams EXCEPT ![p] = <<in[2], in[3]>>]
    /\ wpc' = [wpc EXCEPT ![p] = "crit"]
    /\ UNCHANGED <<connVars, srvSide, creq, cresp, cpending, wret,
                   rpos, rresp, rerr, rcur, got>>

\* Variant: one method name is kept for all the pending calls
RecordCallShared(pending, r) ==
    [j \in DOMAIN pending \cup {r.Seq} |-> r.ServiceMethod]

\* Variant: nothing is recorded
RecordCallNot(pending, r) == pending

\* c.pending[r.Seq] = r.ServiceMethod
RecordCall(pending, r) == Store(pending, r.Seq, r.ServiceMethod)

\* c.pending[r.Seq] = r.ServiceMethod; c.mutex.Unlock()
WQ_Crit(p) ==
    /\ wpc[p] = "crit"
    /\ cpending' = RecordCall(cpending, wr[p])
    /\ cmutex' = FALSE
    /\ wpc' = [wpc EXCEPT ![p] = "fillId"]
    /\ UNCHANGED <<connVars, srvSide, creq, cresp, wr, wparams, wret,
                   rpos, rresp, rerr, rcur, got>>

\* c.req.Id = r.Seq
WQ_FillId(p) ==
    /\ wpc[p] = "fillId"
    /\ creq' = [creq EXCEPT !.Id = wr[p].Seq]
    /\ wpc' = [wpc EXCEPT ![p] = "fill"]
    /\ UNCHANGED <<connVars, srvSide, cresp, cpending, cmutex, wr, wparams, wret,
                   rpos, rresp, rerr, rcur, got>>

\* c.req.Method = r.ServiceMethod; c.req.Params = params
WQ_Fill(p) ==
    /\ wpc[p] = "fill"
    /\ creq' = [creq EXCEPT !.Method = wr[p].ServiceMethod, !.Params = wparams[p]]
    /\ wpc' = [wpc EXCEPT ![p] = "encode"]
    /\ UNCHANGED <<connVars, srvSide, cresp, cpending, cmutex, wr, wparams, wret,
                   rpos, rresp, rerr, rcur, got>>

\* what the encoder writes for a clientRequest
EncodeParams(v) == IF v = <<>> THEN Nil ELSE EncodeArgs(v[1], v[2])
EncodeRequest(req) == Frame(EncodeInt(req.Id), req.Method, EncodeParams(req.Params))

\* return c.enc.Encode(&c.req)
WQ_Encode(p) ==
    /\ wpc[p] = "encode"
    /\ IF connClosed
       THEN /\ wret' = [wret EXCEPT ![p] = "io: closed pipe"]
            /\ c2s' = c2s
       ELSE /\ c2s' = Append(c2s, EncodeRequest(creq))
            /\ wret' = wret
    /\ wpc' = [wpc EXCEPT ![p] = "ret"]
    /\ UNCHANGED <<s2c, connClosed, injected, srvSide, creq, cresp, cpending, cmutex,
                   wr, wparams, rpos, rresp, rerr, rcur, got>>

\* ------------------------------------------ clientCodec.ReadResponseHeader
\* the next response of the stream is there in full, or the stream has ended
CanDecodeResponse ==
    IF rcur < Len(s2c)
    THEN (IF s2c[rcur + 1].h = 0 THEN TRUE ELSE hpc[s2c[rcur + 1].h] # "encoding")
    ELSE connClosed

\* c.dec.Decode(&c.resp): the error, and the fields it fills in
DecodeResponse(stream, cur) ==
    IF cur >= Len(stream) THEN [err |-> "EOF", resp |-> crespReset]
    ELSE LET f == stream[cur + 1]
             id == IF f.i = Nil THEN [ok |-> TRUE, v |-> 0] ELSE DecodeUint(f.i)
         IN  IF f.bad THEN [err |-> "bencode: invalid input", resp |-> crespReset]
             ELSE IF ~id.ok THEN [err |-> "bencode: cannot unmarshal", resp |-> crespReset]
             ELSE [err |-> "", resp |-> [Error |-> f.e, Id |-> id.v, Result |-> f.r]]

\* c.resp.reset(); if err := c.dec.Decode(&c.resp); err != nil { return err }
RH_Decode ==
    /\ rpos = "Header"
    /\ CanDecodeResponse
    /\ LET d == DecodeResponse(s2c, rcur)
       IN  /\ cresp' = d.resp
           /\ rerr' = d.err
           /\ rpos' = IF d.err # "" THEN "Stopped" ELSE "lock"
    /\ rcur' = IF rcur < Len(s2c) THEN rcur + 1 ELSE rcur
    /\ UNCHANGED <<connVars, srvSide, creq, cpending, cmutex, wpc, wr, wparams, wret,
                   rresp, got>>

\* c.mutex.Lock()
RH_Lock ==
    /\ rpos = "lock"
    /\ ~cmutex
    /\ cmutex' = TRUE
    /\ rpos' = "crit"
    /\ UNCHANGED <<connVars, srvSide, creq, cresp, cpending, wpc, wr, wparams, wret,
                   rresp, rerr, rcur, got>>

\* Variant: the oldest pending call is taken to be the one answered
ResolveMethodOldest(pending, id) ==
    IF DOMAIN pending = {} THEN ""
    ELSE pending[CHOOSE j \in DOMAIN pending : \A k \in DOMAIN pending : j <= k]

\* r.ServiceMethod = c.pending[c.resp.Id]
ResolveMethod(pending, id) == IF id \in DOMAIN pending THEN pending[id] ELSE ""

\* Variant: an id without an entry empties the table
ForgetCallOrAll(pending, id) ==
    IF id \in DOMAIN pending THEN Delete(pending, id) ELSE [j \in {} |-> ""]

\* Variant: the entry of an answered call is kept
ForgetCallNever(pending, id) == pending

\* delete(c.pending, c.resp.Id)
ForgetCall(pending, id) == Delete(pending, id)

\* Variant: the error of the response is not copied
FillResponseNoError(r, method, resp) ==
    [ServiceMethod |-> method, Seq |-> resp.Id, Error |-> r.Error]

\* r.Seq = c.resp.Id; if c.resp.Error != "" { r.Error = c.resp.Error }
FillResponse(r, method, resp) ==
    [ServiceMethod |-> method, Seq |-> resp.Id,
     Error |-> IF resp.Error # "" THEN resp.Error ELSE r.Error]

\* lookup, delete(c.pending, c.resp.Id), unlock, fill r, return nil
RH_Crit ==
    /\ rpos = "crit"
    /\ rresp' = FillResponse(rresp, ResolveMethod(cpending, cresp.Id), cresp)
    /\ cpending' = ForgetCall(cpending, cresp.Id)
    /\ cmutex' = FALSE
    /\ rerr' = ""
    /\ rpos' = "Body"
    /\ UNCHANGED <<connVars, srvSide, creq, cresp, wpc, wr, wparams, wret, rcur, got>>

\* -------------------------------------------- clientCodec.ReadResponseBody
\* the rpc client knows the call of a response by its Seq until it is done
KnownCall(seq) ==
    /\ \E p \in Callers : wpc[p] # "idle" /\ wr[p].Seq = seq
    /\ seq \notin DOMAIN got

\* the target the rpc client passes: the Reply of the call, or nil when it
\* knows no such call or the response carries an error
ReplyTarget(r) == IF KnownCall(r.Seq) /\ r.Error = "" THEN "Reply" ELSE "nil"

\* if x == nil { return nil }; return bencode.Unmarshal(*c.resp.Result, x)
ReadResponseBody(resp, x) ==
    IF x = "nil" THEN [err |-> "", C |-> 0]
    ELSE IF resp.Result = Nil
         THEN [err |-> "panic: nil pointer dereference", C |-> 0]
    ELSE IF UnmarshalReply(resp.Result).ok
         THEN [err |-> "", C |-> UnmarshalReply(resp.Result).C]
    ELSE [err |-> "bencode: cannot unmarshal", C |-> 0]

Panicked(err) == err = "panic: nil pointer dereference"

\* the reader reads the body of the response whose header it just read and
\* hands the outcome to the call
RB ==
    /\ rpos = "Body"
    /\ LET b == ReadResponseBody(cresp, ReplyTarget(rresp))
       IN  /\ rerr' = b.err
           /\ rpos' = IF Panicked(b.err) THEN "Crashed" ELSE "Header"
           /\ got' = IF KnownCall(rresp.Seq) /\ ~Panicked(b.err)
                     THEN Store(got, rresp.Seq,
                                [ServiceMethod |-> rresp.ServiceMethod,
                                 Error |-> rresp.Error, C |-> b.C, body |-> b.err])
                     ELSE got
    /\ rresp' = NewResponse
    /\ UNCHANGED <<connVars, srvSide, creq, cresp, cpending, cmutex,
                   wpc, wr, wparams, wret, rcur>>

\* ------------------------------------------------------ the peer of a client
\* responses a peer that is no server codec writes: answers to the calls 0
\* and 1, one with an id no call has, one without a result, and bytes that
\* are no bencode
RogueResponses ==
    {WireResponse(0, "", EncodeInt(0), EncodeResult(Reply(6))),
     WireResponse(0, "", EncodeInt(1), EncodeResult(Reply(5))),
     WireResponse(0, "", IdInt, EncodeResult(Reply(5))),
     WireResponse(0, "", EncodeInt(0), Nil),
     [WireResponse(0, "", Nil, Nil) EXCEPT !.bad = TRUE]}

\* (the pipe is unbuffered: a write ends when the response before it was read)
RogueSend(f) ==
    /\ ~connClosed
    /\ injected < MaxReq
    /\ rcur = Len(s2c)
    /\ s2c' = Append(s2c, f)
    /\ injected' = injected + 1
    /\ UNCHANGED <<c2s, connClosed, srvSide, cliVars>>

\* --------------------------------------------- a client and a rogue peer
NextClient ==
    \/ \E f \in RogueResponses : RogueSend(f)
    \/ PeerClose
    \/ \E p \in Callers : WQ_Lock(p, TestCall(p))
    \/ \E p \in Callers : WQ_Crit(p)
    \/ \E p \in Callers : WQ_FillId(p)
    \/ \E p \in Callers : WQ_Fill(p)
    \/ \E p \in Callers : WQ_Encode(p)
    \/ RH_Decode
    \/ RH_Lock
    \/ RH_Crit
    \/ RB

SpecClient == InitAll /\ [][NextClient]_vars

\* --------------------------------- a client and a server, as the tests run them
\* the rpc client sends under its own request lock: one WriteRequest at a time
Rpc_Send(p, in) ==
    /\ \A q \in Callers : wpc[q] \in {"idle", "ret"}
    /\ WQ_Lock(p, in)

\* the rpc server answers every dispatched request once, under its own
\* sending lock: one WriteResponse at a time
Rpc_Respond(h, s) ==
    /\ s \in DOMAIN replies
    /\ \A g \in Handlers : hpc[g] \in {"idle", "ret"}
    /\ \A g \in Handlers : hpc[g] # "idle" => hr[g].Seq # s
    /\ WR_Lock(h, s)

NextRpc ==
    \/ \E p \in Callers : \E in \in CallInputs : Rpc_Send(p, in)
    \/ \E p \in Callers : WQ_Crit(p)
    \/ \E p \in Callers : WQ_FillId(p)
    \/ \E p \in Callers : WQ_Fill(p)
    \/ \E p \in Callers : WQ_Encode(p)
    \/ RRH_Decode
    \/ RRH_Lock
    \/ RRH_Crit
    \/ RRB
    \/ \E h \in Handlers : \E s \in 1..MaxReq : Rpc_Respond(h, s)
    \/ \E h \in Handlers : WR_Crit(h)
    \/ \E h \in Handlers : WR_Encode(h)
    \/ \E h \in Handlers : WR_EncodeEnd(h)
    \/ RH_Decode
    \/ RH_Lock
    \/ RH_Crit
    \/ RB

SpecRpc == InitAll /\ [][NextRpc]_vars

\* the serving loop under the scheduling of the runtime: a goroutine that can
\* take a step takes it, and a locked mutex is unlocked
SpecServerFair ==
    /\ SpecServer
    /\ WF_vars(RRH_Decode)
    /\ WF_vars(RRH_Lock)
    /\ WF_vars(RRH_Crit)
    /\ WF_vars(RRB)
    /\ \A h \in Handlers : WF_vars(WR_Crit(h))

\* ================================================================ claims
\* the sequence number a response on the wire answers
SeqOf(f) == hr[f.h].Seq
Responses == {s2c[j] : j \in 1..Len(s2c)}

\* C1: every response the server codec writes for a request that carried an
\* identifier on the wire carries exactly that identifier, whatever the kind
\* of identifier and the order of the responses
C1_IdFidelity ==
    \A f \in Responses :
        /\ SeqOf(f) \in DOMAIN wireId
        /\ wireId[SeqOf(f)] # Nil => f.i = wireId[SeqOf(f)]

\* two requests with a string and a nested identifier, answered in reverse
C1_Witness ==
    /\ Len(s2c) = 2
    /\ SeqOf(s2c[1]) = 2 /\ SeqOf(s2c[2]) = 1
    /\ wireId[1] = IdStr /\ wireId[2] = IdList
    /\ s2c[1].i = IdList /\ s2c[2].i = IdStr
    /\ \A h \in Handlers : hpc[h] = "ret"

\* the call of the client with request id s
CallerOf(s) == s + 1
Expected(s) ==
    LET p == CallerOf(s)
        a == Arith(wr[p].ServiceMethod, wparams[p][1], wparams[p][2])
    IN  [ServiceMethod |-> wr[p].ServiceMethod, Error |-> a.Error,
         C |-> a.x.C, body |-> ""]

\* C2: whatever the order in which the server completes the outstanding
\* calls, each call receives the method, error and result of its own request
C2_Pairing ==
    \A s \in DOMAIN got : CallerOf(s) \in Callers /\ got[s] = Expected(s)

\* two calls were outstanding, the second was answered first, both are done
C2_Witness ==
    /\ Len(s2c) = 2
    /\ s2c[1].i = EncodeInt(1) /\ s2c[2].i = EncodeInt(0)
    /\ DOMAIN got = {0, 1}
    /\ wr[1].ServiceMethod = "Arith.Mul" /\ got[0].C = 6
    /\ wr[2].ServiceMethod = "Arith.Add" /\ got[1].C = 5

\* the only WriteResponse invocation so far for its sequence number
Sole(h) == \A g \in Handlers \ {h} : hpc[g] = "idle" \/ hr[g].Seq # hr[h].Seq
\* h has left the critical section of WriteResponse
PastLookup(h) == hpc[h] \in {"encode", "encoding", "ret"}

\* C3: a request read without an identifier is answered: WriteResponse for
\* its sequence number is not refused and writes the sentinel i0e as the id
C3_MissingIdFallback ==
    \A h \in Handlers :
        (/\ PastLookup(h)
         /\ hr[h].Seq \in DOMAIN wireId
         /\ wireId[hr[h].Seq] = Nil
         /\ Sole(h))
        => /\ hret[h] # errInvalidSeq
           /\ (hpc[h] = "ret" /\ hret[h] = "")
                 => \E f \in Responses : f.h = h /\ f.i = zero

\* the step in which ReadRequestBody returns
RRB_Step == lpc = "Body" /\ lpc' = "Reading"
\* the request h answers was read without params into a non-nil target
MissingParamsCall(s) == s \in DOMAIN replies /\ replies[s].Error = errMissingParams

C5_UnknownSeq ==
    /\ [][\A h \in Handlers :
            (hpc[h] = "crit" /\ hpc'[h] # "crit" /\ hr[h].Seq \notin DOMAIN spending)
                => /\ hret'[h] = errInvalidSeq
                   /\ hpc'[h] = "ret"
                   /\ s2c' = s2c
                   /\ spending' = spending
                   /\ sseq' = sseq]_vars
    /\ [](\A f \in Responses : hret[f.h] # errInvalidSeq)

\* one invocation for a sequence number never assigned was refused, or a
\* second one for a sequence number already answered was
C5_Witness ==
    \E g, h \in Handlers :
        /\ g # h
        /\ hr[g].Seq = hr[h].Seq /\ hr[h].Seq # 0
        /\ hpc[g] = "ret" /\ hret[g] = ""
        /\ hpc[h] = "ret" /\ hret[h] = errInvalidSeq
        /\ Len(s2c) = 1

\* the step in which ReadResponseHeader returns nil
RH_Return == rpos = "crit" /\ rpos' = "Body"

StreamFails == connClosed \/ \E j \in 1..Len(c2s) : ~c2s[j].ok

\* C7: the first ReadRequestHeader that fails moves the serving loop from
\* Reading to Closed; after that it reads nothing more; and on a stream that
\* holds a decode failure or ends the loop ends up Closed
C7_LoopTerminates ==
    /\ [][(lpc = "Reading" /\ lpc' # "Reading")
            => lpc' = (IF DecodeError(c2s, connClosed) # "" THEN "Closed"
                       ELSE "HdrLock")]_vars
    /\ [][lpc = "Closed"
            => /\ lpc' = "Closed"
               /\ sseq' = sseq /\ sreq' = sreq /\ DOMAIN spending' \subseteq DOMAIN spending
               /\ Len(c2s') >= Len(c2s)]_vars
    /\ StreamFails ~> lpc = "Closed"

\* the loop served a request and then stopped at invalid bencode
C7_Witness ==
    /\ lpc = "Closed"
    /\ lerr = "bencode: invalid input"
    /\ sseq = 1
    /\ ~connClosed

\* C8: the writes of two responses never overlap on the wire
C8_AtomicFrames ==
    /\ Cardinality(Encoding) <= 1
    /\ \A f \in Responses : ~f.bad

\* C9: ReadResponseBody returns nil for a nil target; for a non-nil target it
\* returns an error when the response had no result, without crashing, and
\* otherwise hands the call the result
C9_ReadResponseBody ==
    [][(rpos = "Body" /\ rpos' # "Body")
         => LET x == ReplyTarget(rresp)
                u == UnmarshalReply(cresp.Result)
            IN  /\ x = "nil" => (rerr' = "" /\ rpos' = "Header")
                /\ (x # "nil" /\ cresp.Result = Nil)
                      => (rerr' # "" /\ ~Panicked(rerr') /\ rpos' = "Header")
                /\ (x # "nil" /\ cresp.Result # Nil /\ u.ok)
                      => (rerr' = "" /\ got'[rresp.Seq].C = u.C)]_vars

\* C10: an error text given to WriteResponse is on the wire with the
\* original id, ReadResponseHeader hands exactly that text to the call
\* (none when the wire error is empty), and neither side stops: the other
\* calls get their own results
C10_ErrorsTravel ==
    /\ [](\A f \in Responses : f.e = hr[f.h].Error /\ f.i = wireId[SeqOf(f)])
    /\ [](rpos \in {"lock", "crit"} => cresp.Error = s2c[rcur].e)
    /\ [][RH_Return => (rresp'.Error = cresp.Error /\ rerr' = "")]_vars
    /\ [](\A s \in DOMAIN got :
            /\ got[s].Error = Expected(s).Error
            /\ got[s].Error = "" => (got[s].C = Expected(s).C /\ got[s].body = ""))
    /\ [](lpc # "Closed" /\ rpos \notin {"Stopped", "Crashed"})

\* a call that failed with divide by zero was answered first, the call sent
\* with it got its result after that
C10_Witness ==
    /\ Len(s2c) = 2
    /\ s2c[1].e = "divide by zero" /\ s2c[1].i = EncodeInt(0)
    /\ DOMAIN got = {0, 1}
    /\ got[0].Error = "divide by zero"
    /\ got[1].Error = "" /\ got[1].C = 5

\* the invocations for sequence number s that found its pending entry
Answering(s) ==
    {h \in Handlers : /\ hpc[h] # "idle" /\ hr[h].Seq = s
                      /\ \/ hpc[h] \in {"encode", "encoding"}
                         \/ hpc[h] = "ret" /\ hret[h] # errInvalidSeq}

\* C11: whatever the interleaving of WriteResponse invocations, two for one
\* sequence number included, the pending entry of a sequence number is
\* removed by one invocation only and at most one response is written for
\* it; an entry is there exactly for the requests read with an id that no
\* invocation has answered, so none is left once all are answered
C11_ExactlyOnce ==
    /\ [](\A s \in 0..sseq : Cardinality(Answering(s)) <= 1)
    /\ [](\A s \in 0..sseq :
            Cardinality({j \in 1..Len(s2c) : SeqOf(s2c[j]) = s}) <= 1)
    /\ [](DOMAIN spending =
            {s \in DOMAIN wireId : wireId[s] # Nil /\ Answering(s) = {}})
    /\ [][\A s \in DOMAIN spending \ DOMAIN spending' :
            \E h \in Handlers :
                /\ hpc[h] = "crit" /\ hpc'[h] = "encode" /\ hr[h].Seq = s
                /\ \A g \in Handlers \ {h} : hpc'[g] = hpc[g]]_vars

\* the one request read was answered by one of two invocations for its
\* sequence number, the other was refused, and the table is empty
C11_Witness ==
    /\ sseq = 1 /\ wireId[1] = IdStr /\ lpc = "Reading"
    /\ hpc = [h \in Handlers |-> "ret"]
    /\ \A h \in Handlers : hr[h].Seq = 1
    /\ Cardinality(Answering(1)) = 1
    /\ Len(s2c) = 1 /\ s2c[1].i = IdStr
    /\ spending = EmptyMap

\* the method given to the WriteRequest call that used sequence number s
MethodOfCall(s) == wr[CallerOf(s)].ServiceMethod

\* C12: a response whose id s has a pending entry comes back from
\* ReadResponseHeader with Seq = s and the method of the WriteRequest call
\* that used s, whatever the order of the responses
C12_MethodResolution ==
    /\ [][(RH_Return /\ cresp.Id \in DOMAIN cpending)
            => /\ CallerOf(cresp.Id) \in Callers
               /\ wpc[CallerOf(cresp.Id)] \notin {"idle", "crit"}
               /\ rresp'.Seq = cresp.Id
               /\ rresp'.ServiceMethod = MethodOfCall(cresp.Id)
               /\ rresp'.ServiceMethod \in Methods]_vars
    /\ [](\A s \in DOMAIN got :
            got[s].ServiceMethod # "" => got[s].ServiceMethod = MethodOfCall(s))

\* the second call was answered before the first, and both responses came
\* back with the methods of their calls
C12_Witness ==
    /\ rcur = 2 /\ rpos = "Body"
    /\ s2c[1].i = EncodeInt(1) /\ s2c[2].i = EncodeInt(0)
    /\ 1 \in DOMAIN got /\ got[1].ServiceMethod = "Arith.Add"
    /\ rresp.Seq = 0 /\ rresp.ServiceMethod = "Arith.Mul"

\* the step in which ReadRequestHeader returns nil
RRH_Return == lpc = "HdrCrit" /\ lpc' = "Body"

\* C13: the k-th request ReadRequestHeader reads is given sequence number
\* k: the counter starts before 1, goes up by one in every successful read
\* and in no other step, so the numbers follow the order of arrival, none
\* is given twice, and the outstanding requests have distinct ones
C13_ServerSeq ==
    /\ sseq = 0
    /\ [][RRH_Return
            => /\ sseq' = sseq + 1
               /\ lreq'.Seq = sseq'
               /\ sseq' \notin DOMAIN wireId
               /\ sseq' \notin DOMAIN spending
               /\ \A s \in DOMAIN spending : spending'[s] = spending[s]
               /\ sreq.Id # Nil => spending'[sseq'] = sreq.Id]_vars
    /\ [][(lpc = "Reading" /\ lpc' = "HdrLock")
            => sreq'.Id = Head(c2s).i /\ c2s' = Tail(c2s)]_vars
    /\ [][~RRH_Return => sseq' = sseq]_vars
    /\ [](DOMAIN wireId = 1..sseq)
    /\ [](DOMAIN spending \subseteq 1..sseq)
    /\ [](lpc = "Body" => lreq.Seq = sseq /\ sseq >= 1)

\* two requests were read one after the other, got 1 and 2, and both are
\* outstanding
C13_Witness ==
    /\ sseq = 2 /\ lpc = "Body" /\ lreq.Seq = 2
    /\ wireId[1] = IdInt /\ wireId[2] = IdStr
    /\ DOMAIN spending = {1, 2}
    /\ spending[1] = IdInt /\ spending[2] = IdStr

\* the request ids of the frames that wait on the wire to be read
OnWire == {DecodeUint(c2s[j].i).v : j \in 1..Len(c2s)}

\* C14: WriteRequest stores the pending entry before it writes the request:
\* a request on the wire has its entry, and with a sender and the reader
\* running side by side every response to a request that reached the wire
\* finds the entry of its id
C14_RecordedBeforeWrite ==
    /\ [](\A s \in OnWire : s \in DOMAIN cpending)
    /\ [](\A p \in Callers :
            (wpc[p] \in {"fillId", "fill", "encode"}) => wr[p].Seq \in DOMAIN cpending)
    /\ [][\A p \in Callers :
            (wpc[p] = "encode" /\ wpc'[p] = "ret" /\ wret'[p] = "")
                => /\ c2s' = Append(c2s, EncodeRequest(creq))
                   /\ creq.Id \in DOMAIN cpending
                   /\ cpending[creq.Id] = creq.Method]_vars
    /\ [][RH_Return
            => /\ cresp.Id \in DOMAIN cpending
               /\ rresp'.ServiceMethod = cpending[cresp.Id]
               /\ rresp'.ServiceMethod # ""]_vars

\* the response to the first call was read and resolved while the second
\* call was about to be written
C14_Witness ==
    /\ rpos = "Body" /\ rresp.Seq = 0 /\ rresp.ServiceMethod \in Methods
    /\ wpc[2] = "encode"
    /\ DOMAIN cpending = {1}

\* WriteRequest was called with sequence number s and is past its store
Sent(s) == \E p \in Callers : wr[p].Seq = s /\ wpc[p] \notin {"idle", "crit"}
\* the ids of the responses ReadResponseHeader has decoded so far
IdsRead ==
    {DecodeUint(s2c[j].i).v : j \in {k \in 1..rcur : ~s2c[k].bad /\ DecodeUint(s2c[k].i).ok}}

\* C15: the client pending table has an entry only for a sequence number
\* that was sent, with the method of that call, and has one for every
\* sequence number sent whose id no response read has carried; an entry
\* comes only from the store of a WriteRequest and goes only when
\* ReadResponseHeader reads that id, also when the write of the request
\* failed
C15_ClientPending ==
    /\ [](\A s \in DOMAIN cpending : Sent(s) /\ cpending[s] = MethodOfCall(s))
    /\ [](\A s \in 0..MaxReq : (Sent(s) /\ s \notin IdsRead) => s \in DOMAIN cpending)
    /\ [][\A s \in DOMAIN cpending' \ DOMAIN cpending :
            \E p \in Callers : wpc[p] = "crit" /\ wpc'[p] = "fillId" /\ wr[p].Seq = s]_vars
    /\ [][\A s \in DOMAIN cpending \ DOMAIN cpending' : RH_Return /\ cresp.Id = s]_vars
    /\ [][RH_Return => cresp.Id \notin DOMAIN cpending']_vars
    /\ [][\A p \in Callers :
            (wpc[p] = "encode" /\ wpc'[p] = "ret") => cpending' = cpending]_vars

\* the write of the first request failed on a closed connection and its
\* entry is still there; the second call is recorded as well
C15_Witness ==
    /\ connClosed
    /\ wpc[1] = "ret" /\ wret[1] = "io: closed pipe"
    /\ c2s = <<>>
    /\ DOMAIN cpending = {0, 1}
    /\ cpending[0] = "Arith.Mul"

\* the request WriteRequest invocation p was asked to write
RequestOf(p) == EncodeRequest(clientRequest(wr[p].Seq, wr[p].ServiceMethod, wparams[p]))

\* C16: with WriteRequest invocations running side by side, every request on
\* the wire carries the id, method and params of one invocation, and only
\* one invocation at a time is between filling the request workspace and
\* the end of its write
C16_AtomicRequests ==
    /\ \A j \in 1..Len(c2s) :
          \E p \in Callers : wpc[p] = "ret" /\ c2s[j] = RequestOf(p)
    /\ Cardinality({p \in Callers : wpc[p] \in {"fill", "encode"}}) <= 1

\* the server and the client of the tests under the scheduling of the
\* runtime: a goroutine that can take a step takes it
SpecRpcFair ==
    /\ SpecRpc
    /\ WF_vars(RRH_Lock)
    /\ WF_vars(RRH_Crit)
    /\ WF_vars(RH_Lock)
    /\ WF_vars(RH_Crit)
    /\ \A h \in Handlers : WF_vars(WR_Crit(h))
    /\ \A p \in Callers : WF_vars(WQ_Crit(p))

\* the operations that hold the mutex of the server codec, of the client codec
ServerHolders ==
    (IF lpc = "HdrCrit" THEN {"ReadRequestHeader"} ELSE {})
        \cup {h \in Handlers : hpc[h] = "crit"}
ClientHolders ==
    (IF rpos = "crit" THEN {"ReadResponseHeader"} ELSE {})
        \cup {p \in Callers : wpc[p] = "crit"}
\* a step that reads from or writes to the connection
ConnectionIO == c2s' # c2s \/ s2c' # s2c \/ rcur' # rcur

\* C17: the mutex of a codec is locked exactly while one operation is in
\* its lookup-and-mutate step; no step of that operation touches the
\* connection while it holds it; so the mutex is always unlocked again and
\* an operation that waits for it gets it
C17_LockDiscipline ==
    /\ [](smutex <=> Cardinality(ServerHolders) = 1)
    /\ [](~smutex => ServerHolders = {})
    /\ [](cmutex <=> Cardinality(ClientHolders) = 1)
    /\ [](~cmutex => ClientHolders = {})
    /\ [][ConnectionIO =>
            /\ smutex' = smutex /\ cmutex' = cmutex
            /\ ServerHolders' = ServerHolders /\ ClientHolders' = ClientHolders]_vars
    /\ [][(smutex /\ ~smutex') \/ (cmutex /\ ~cmutex') => ~ConnectionIO]_vars
    /\ smutex ~> ~smutex
    /\ cmutex ~> ~cmutex
    /\ (lpc = "HdrLock") ~> (lpc = "HdrCrit")
    /\ (rpos = "lock") ~> (rpos = "crit")

\* the reader of the client, with the response to the first call decoded,
\* waits for the mutex that the WriteRequest of the second call holds; the
\* WriteResponse that wrote that response has let go of the server's
C17_Witness ==
    /\ cmutex /\ rpos = "lock" /\ wpc[2] = "crit"
    /\ ~smutex /\ hpc[1] = "ret" /\ hret[1] = ""
    /\ Len(s2c) = 1 /\ rcur = 1

\* ------------------- the client and the server of the tests on a bad line
\* bytes that are no bencode, written to the client
MalformedOutput == [WireResponse(0, "", Nil, Nil) EXCEPT !.bad = TRUE]

\* the calls of TestClient while the connection is closed under them and
\* invalid bytes arrive at either end
NextFaulty ==
    \/ NextRpc
    \/ PeerClose
    \/ PeerSend(Malformed)
    \/ RogueSend(MalformedOutput)

SpecFaulty == InitAll /\ [][NextFaulty]_vars

\* the step in which ReadResponseBody returns
RB_Step == rpos = "Body" /\ rpos' # "Body"

\* C18: once the connection is closed every operation of a codec that then
\* starts returns an error: WriteRequest, ReadResponseHeader and
\* ReadResponseBody of the client, ReadRequestHeader, ReadRequestBody and
\* WriteResponse of the server (a header read is one that finds no bytes
\* left from before the close)
C18_ClosedFails ==
    [][connClosed =>
        /\ \A p \in Callers :
              (wpc[p] = "encode" /\ wpc'[p] = "ret") => wret'[p] # ""
        /\ (rpos = "Header" /\ rpos' # "Header" /\ rcur = Len(s2c)) => rerr' # ""
        /\ RB_Step => rerr' # ""
        /\ (lpc = "Reading" /\ lpc' # "Reading" /\ c2s = <<>>) => lerr' # ""
        /\ RRB_Step => lerr' # ""
        /\ \A h \in Handlers :
              (hpc[h] # "ret" /\ hpc'[h] = "ret") => hret'[h] # ""]_vars

\* C19: a header read whose decode fails changes no correlation state: on
\* the server the counter and the pending table stay as they were, no
\* sequence number is used up; on the client the pending table stays
C19_FailedReadKeepsState ==
    /\ [][(lpc = "Reading" /\ lpc' = "Closed")
            => /\ lerr' # ""
               /\ sseq' = sseq
               /\ spending' = spending
               /\ lreq'.Seq = lreq.Seq
               /\ DOMAIN wireId' = DOMAIN wireId]_vars
    /\ [][(rpos = "Header" /\ rpos' = "Stopped")
            => /\ rerr' # ""
               /\ cpending' = cpending
               /\ rresp' = rresp]_vars
    /\ [][(lpc = "Reading" /\ lpc' # "Reading" /\ DecodeError(c2s, connClosed) # "")
            => lpc' = "Closed"]_vars
    /\ [][(rpos = "Header" /\ rpos' # "Header" /\ DecodeResponse(s2c, rcur).err # "")
            => rpos' = "Stopped"]_vars

\* with one call read by the server and still pending on both sides, the
\* server met invalid bytes and the client met invalid bytes
C19_Witness ==
    /\ lpc = "Closed" /\ lerr = "bencode: invalid input"
    /\ sseq = 1 /\ DOMAIN spending = {1}
    /\ rpos = "Stopped" /\ rerr = "bencode: invalid input"
    /\ DOMAIN cpending = {0}

====
